---- MODULE Spec2Model ----
(***************************************************************************)
(* ZeroShotClassificationPipeline                                          *)
(* (modelscope/pipelines/nlp/zero_shot_classification_pipeline.py).        *)
(*                                                                         *)
(* One pipeline call is modelled as a state machine:                       *)
(*   call -> _sanitize_parameters -> preprocess -> forward -> postprocess  *)
(* The keyword mapping of the call is a function from key names to values. *)
(* Logits are an array with one row per candidate label (rows 1..n, the    *)
(* code's rows 0..n-1) and columns 0..2 (the code's column numbers).       *)
(* Floating point probabilities are fixed point numbers with Unit = 1.0,   *)
(* rounded to five decimals; exp is tabulated to twelve decimals on the    *)
(* shifted arguments x - max(x) that scipy's softmax passes to it, for     *)
(* integer logits at most 9 apart and at most 10 labels.                   *)
(***************************************************************************)
EXTENDS Integers, Sequences, FiniteSets, TLC

VARIABLES
    pc,                 \* position of the call
    kwargs,             \* keyword parameters of the call
    preprocess_params,  \* first value returned by _sanitize_parameters
    forward_params,     \* second value returned by _sanitize_parameters
    postprocess_params, \* third value returned by _sanitize_parameters
    batch,              \* model input: one premise/hypothesis pair per label
    logits,             \* inputs['logits'] handed to postprocess
    tie,                \* how the unstable argsort of this call orders equal scores
    scores,             \* postprocess local `scores` (in candidate order)
    reversed_index,     \* postprocess local `reversed_index`
    result,             \* value returned by postprocess
    error,              \* exception raised by the call, "none" if none
    stages              \* steps of the call that completed, in order

vars == <<pc, kwargs, preprocess_params, forward_params, postprocess_params,
          batch, logits, tie, scores, reversed_index, result, error, stages>>

----------------------------------------------------------------------------
(* Bounds and input sets *)

MaxLabels == 2

LabelNames == {"sports", "politics"}

LogitValues == {0, 1}

Columns == 0..2

Templates == {"This is {}."}

CandidateLabelSets == UNION {[1..n -> LabelNames] : n \in 0..MaxLabels}

LogitsTensor(n) == [1..n -> [Columns -> LogitValues]]

Perms(n) == {p \in [1..n -> 1..n] : \A a, b \in 1..n : p[a] = p[b] => a = b}

Opt(key, values) == {<<>>} \cup {key :> v : v \in values}

Kwargs ==
    {a @@ b @@ c @@ d :
        a \in Opt("candidate_labels", CandidateLabelSets),
        b \in Opt("hypothesis_template", Templates),
        c \in Opt("multi_label", BOOLEAN),
        d \in Opt("device", {"cpu"})}

PostprocessKwargs ==
    {a @@ c :
        a \in {"candidate_labels" :> v : v \in CandidateLabelSets},
        c \in {"multi_label" :> v : v \in BOOLEAN}}

----------------------------------------------------------------------------
(* __init__ *)

contradiction_id == 2

entailment_id == 0

----------------------------------------------------------------------------
(* _sanitize_parameters *)

NoLabelError == "You must include at least one label."

\* kwargs.pop(key, default)
Pop(kw, key, default) == IF key \in DOMAIN kw THEN kw[key] ELSE default

SanitizeNeverRaises(kw) == FALSE

SanitizeRaises(kw) == "candidate_labels" \notin DOMAIN kw

PreprocessParams(kw) ==
    [k \in ({"candidate_labels"} \cap DOMAIN kw) \cup {"hypothesis_template"} |->
        IF k = "candidate_labels" THEN kw[k]
        ELSE Pop(kw, "hypothesis_template", "{}")]

ForwardParams(kw) == <<>>

PostprocessParamsWithTemplate(kw) ==
    [k \in ({"candidate_labels"} \cap DOMAIN kw)
            \cup {"multi_label", "hypothesis_template"} |->
        IF k = "candidate_labels" THEN kw[k]
        ELSE IF k = "multi_label" THEN Pop(kw, "multi_label", FALSE)
        ELSE Pop(kw, "hypothesis_template", "{}")]

PostprocessParams(kw) ==
    [k \in ({"candidate_labels"} \cap DOMAIN kw) \cup {"multi_label"} |->
        IF k = "candidate_labels" THEN kw[k]
        ELSE Pop(kw, "multi_label", FALSE)]

----------------------------------------------------------------------------
(* postprocess *)

\* 1.0 of a score: scores are fixed point numbers with five decimals
Unit == 10^5

Half == Unit \div 2

\* exp and the sum over the axis carry twelve decimals, more than a 32 bit
\* integer holds: such a number is <<hi, lo>>, standing for
\* (hi * Base + lo) / 10^12 with 0 <= lo < Base
Base == 10^6

BigAdd(a, b) ==
    <<a[1] + b[1] + (a[2] + b[2]) \div Base, (a[2] + b[2]) % Base>>

\* a - b for a >= b
BigSub(a, b) ==
    IF a[2] >= b[2]
    THEN <<a[1] - b[1], a[2] - b[2]>>
    ELSE <<a[1] - b[1] - 1, a[2] + Base - b[2]>>

\* k * a for a small natural k
BigScale(a, k) ==
    <<a[1] * k + (a[2] * k) \div Base, (a[2] * k) % Base>>

BigGeq(a, b) == a[1] > b[1] \/ (a[1] = b[1] /\ a[2] >= b[2])

\* exp(x) rounded to twelve decimals, for the shifted arguments
\* x = logit - max(logits) of softmax: integers in -9..0. There is no entry
\* below -9, where five decimals of a score stop telling the scores of
\* different logits apart.
Exp(x) ==
    CASE x = 0 -> <<1000000, 0>>
      [] x = -1 -> <<367879, 441171>>
      [] x = -2 -> <<135335, 283237>>
      [] x = -3 -> <<49787, 68368>>
      [] x = -4 -> <<18315, 638889>>
      [] x = -5 -> <<6737, 946999>>
      [] x = -6 -> <<2478, 752177>>
      [] x = -7 -> <<911, 881966>>
      [] x = -8 -> <<335, 462628>>
      [] x = -9 -> <<123, 409804>>

\* x as <<quotient, remainder>> of the division by den, for x < 2 * den
Reduce(x, den) == IF BigGeq(x, den) THEN <<1, BigSub(x, den)>> ELSE <<0, x>>

\* radix * r as <<quotient, remainder>> of the division by den, for r < den
\* and radix at most 100. den is at least exp(0), so the leading parts give
\* the quotient or one less.
Digits(r, den, radix) ==
    LET x == BigScale(r, radix)
        trial == x[1] \div (den[1] + 1)
        rest == BigSub(x, BigScale(den, trial))
    IN  IF BigGeq(rest, den)
        THEN <<trial + 1, BigSub(rest, den)>>
        ELSE <<trial, rest>>

\* q + r / den in units of 1/unit, rounded to the nearest (unit a power of
\* ten, r < den): the quotient is taken two decimal digits at a time, and
\* one when a single digit is left
RECURSIVE Divide(_, _, _, _)
Divide(q, r, den, unit) ==
    IF unit = 1
    THEN q + Reduce(BigAdd(r, r), den)[1]
    ELSE LET radix == IF unit % 100 = 0 THEN 100 ELSE 10
             digits == Digits(r, den, radix)
         IN  Divide(q * radix + digits[1], digits[2], den, unit \div radix)

\* a sequence given by a rule, as the list of its elements
List(s) == SubSeq(s, 1, Len(s))

RECURSIVE SeqMax(_)
SeqMax(s) ==
    IF Len(s) = 1 THEN s[1]
    ELSE LET m == SeqMax(Tail(s)) IN IF s[1] > m THEN s[1] ELSE m

RECURSIVE SeqSum(_)
SeqSum(s) == IF Len(s) = 0 THEN <<0, 0>> ELSE BigAdd(s[1], SeqSum(Tail(s)))

\* scipy.special.softmax over one axis: exp(x - max(x)) / sum(exp(x - max(x)))
Softmax(x) ==
    LET x_max == SeqMax(x)
        exp_x_shifted == List([i \in 1..Len(x) |-> Exp(x[i] - x_max)])
        total == SeqSum(exp_x_shifted)
    IN  [i \in 1..Len(x) |->
            LET whole == Reduce(exp_x_shifted[i], total)
            IN  Divide(whole[1], whole[2], total, Unit)]

\* softmax over the label axis in place of the per-row two-way softmax
BinaryScoresAcrossLabels(lg) ==
    IF Len(lg) = 0 THEN <<>>
    ELSE Softmax(List([i \in 1..Len(lg) |-> lg[i][entailment_id]]))

\* the neutral column selected in place of the contradiction column
BinaryScoresWithNeutral(lg) ==
    [i \in 1..Len(lg) |-> Softmax(<<lg[i][1], lg[i][entailment_id]>>)[2]]

\* logits[..., [contradiction_id, entailment_id]]; softmax(axis=-1)[..., 1]
BinaryScores(lg) ==
    [i \in 1..Len(lg) |->
        Softmax(<<lg[i][contradiction_id], lg[i][entailment_id]>>)[2]]

\* logits[..., entailment_id]; softmax(axis=-1)
MultiClassScores(lg) ==
    Softmax(List([i \in 1..Len(lg) |-> lg[i][entailment_id]]))

Scores(lg, candidate_labels, multi_label) ==
    IF multi_label \/ Len(candidate_labels) = 1
    THEN BinaryScores(lg)
    ELSE MultiClassScores(lg)

\* softmax of a zero-size array raises (reduction without identity)
PostprocessRaises(lg, candidate_labels, multi_label) ==
    /\ ~(multi_label \/ Len(candidate_labels) = 1)
    /\ Len(lg) = 0

ZeroSizeError == "zero-size array to reduction operation maximum which has no identity"

ArgsortUnsorted(s, t) == List([k \in 1..Len(s) |-> k])

\* scores.argsort(): ascending; numpy's default sort is not stable, so equal
\* scores are ordered by the call's tie order t (t the identity = index order)
Argsort(s, t) ==
    LET before(i, j) == s[i] < s[j] \/ (s[i] = s[j] /\ t[i] < t[j])
        rank(i) == 1 + Cardinality({j \in 1..Len(s) : before(j, i)})
    IN  List([k \in 1..Len(s) |-> CHOOSE i \in 1..Len(s) : rank(i) = k])

NotReversed(s) == s

\* list(reversed(...))
Reversed(s) == List([k \in 1..Len(s) |-> s[Len(s) + 1 - k]])

ResultLabelsInCandidateOrder(candidate_labels, index) == candidate_labels

\* [candidate_labels[i] for i in reversed_index]
ResultLabels(candidate_labels, index) ==
    List([k \in 1..Len(index) |-> candidate_labels[index[k]]])

\* [scores[i].item() for i in reversed_index]
ResultScores(s, index) == List([k \in 1..Len(index) |-> s[index[k]]])

\* the locals and the return value of postprocess
Postprocess(lg, candidate_labels, multi_label, t) ==
    LET s == List(Scores(lg, candidate_labels, multi_label))
        index == Reversed(Argsort(s, t))
    IN  [scores |-> s,
         reversed_index |-> index,
         result |-> [labels |-> ResultLabels(candidate_labels, index),
                     scores |-> ResultScores(s, index)]]

----------------------------------------------------------------------------
(* The pipeline call *)

NoResult == [labels |-> <<>>, scores |-> <<>>]

InitWith(kws) ==
    /\ pc = "call"
    /\ kwargs \in kws
    /\ preprocess_params = <<>>
    /\ forward_params = <<>>
    /\ postprocess_params = <<>>
    /\ batch = <<>>
    /\ logits = <<>>
    /\ tie = <<>>
    /\ scores = <<>>
    /\ reversed_index = <<>>
    /\ result = NoResult
    /\ error = "none"
    /\ stages = <<>>

Init == InitWith(Kwargs)

InitPost == InitWith(PostprocessKwargs)

Sanitize ==
    /\ pc = "call"
    /\ IF SanitizeRaises(kwargs)
       THEN /\ pc' = "raised"
            /\ error' = NoLabelError
            /\ UNCHANGED <<preprocess_params, forward_params,
                           postprocess_params, stages>>
       ELSE /\ pc' = "sanitized"
            /\ preprocess_params' = PreprocessParams(kwargs)
            /\ forward_params' = ForwardParams(kwargs)
            /\ postprocess_params' = PostprocessParams(kwargs)
            /\ stages' = Append(stages, "sanitize")
            /\ UNCHANGED error
    /\ UNCHANGED <<kwargs, batch, logits, tie, scores, reversed_index, result>>

\* the preprocessor: one premise/hypothesis pair per candidate label
Preprocess ==
    /\ pc = "sanitized"
    /\ pc' = "preprocessed"
    /\ batch' = [i \in 1..Len(preprocess_params["candidate_labels"]) |->
                    [template |-> preprocess_params["hypothesis_template"],
                     label |-> preprocess_params["candidate_labels"][i]]]
    /\ stages' = Append(stages, "preprocess")
    /\ UNCHANGED <<kwargs, preprocess_params, forward_params,
                   postprocess_params, logits, tie, scores, reversed_index,
                   result, error>>

\* forward: the model's logits, one row of three classes per pair
Forward ==
    /\ pc = "preprocessed"
    /\ pc' = "forwarded"
    /\ logits' \in LogitsTensor(Len(batch))
    /\ stages' = Append(stages, "forward")
    /\ UNCHANGED <<kwargs, preprocess_params, forward_params,
                   postprocess_params, batch, tie, scores, reversed_index,
                   result, error>>

PostprocessStep ==
    /\ pc = "forwarded"
    /\ LET candidate_labels == postprocess_params["candidate_labels"]
           multi_label == postprocess_params["multi_label"]
       IN  IF PostprocessRaises(logits, candidate_labels, multi_label)
           THEN /\ pc' = "raised"
                /\ error' = ZeroSizeError
                /\ UNCHANGED <<tie, scores, reversed_index, result, stages>>
           ELSE \E t \in Perms(Len(candidate_labels)) :
                LET out == Postprocess(logits, candidate_labels, multi_label, t)
                IN  /\ pc' = "done"
                    /\ tie' = t
                    /\ scores' = out.scores
                    /\ reversed_index' = out.reversed_index
                    /\ result' = out.result
                    /\ stages' = Append(stages, "postprocess")
                    /\ UNCHANGED error
    /\ UNCHANGED <<kwargs, preprocess_params, forward_params,
                   postprocess_params, batch, logits>>

Next == Sanitize \/ Preprocess \/ Forward \/ PostprocessStep

Spec == Init /\ [][Next]_vars

SpecPost == InitPost /\ [][Next]_vars

----------------------------------------------------------------------------
(* Vocabulary of the properties *)

Done == pc = "done"

CandidateLabels == postprocess_params["candidate_labels"]

MultiLabel == postprocess_params["multi_label"]

N == Len(CandidateLabels)

MultiClassMode == Done /\ ~MultiLabel /\ N > 1

BinaryMode == Done /\ (MultiLabel \/ N = 1)

\* position in the returned sequences of the candidate label at input position i
Pos(index, i) == CHOOSE k \in 1..Len(index) : index[k] = i

\* score returned for the candidate label at input position i
ScoreReported(res, index, i) == res.scores[Pos(index, i)]

Score(i) == ScoreReported(result, reversed_index, i)

Place(i) == Pos(reversed_index, i)

\* the logits arrays that agree with `logits` outside the columns cols
VaryColumns(cols) ==
    {[i \in 1..N |-> [c \in Columns |-> IF c \in cols THEN f[i][c] ELSE logits[i][c]]] :
        f \in [1..N -> [cols -> LogitValues]]}

\* the logits arrays that agree with `logits` outside the rows rows
VaryRows(rows) ==
    {[i \in 1..N |-> IF i \in rows THEN f[i] ELSE logits[i]] :
        f \in [rows -> [Columns -> LogitValues]]}

\* postprocess of the same call on other logits
Rerun(lg) == Postprocess(lg, CandidateLabels, MultiLabel, tie)

Range(s) == {s[k] : k \in DOMAIN s}

----------------------------------------------------------------------------
(* C1 *)

\* C1: in multi-class mode (multi_label false, more than one label) the
\* labels are ranked by the column 2 logit, the entailment column: a strictly
\* greater column 2 logit gives an earlier place and a strictly greater
\* score, and columns 0 and 1 do not influence the result.
\* The code ranks by column 0 (entailment_id = 0).
C1_RankedByColumnTwo ==
    MultiClassMode =>
        /\ \A i, j \in 1..N :
              logits[i][2] > logits[j][2] =>
                  Place(i) < Place(j) /\ Score(i) > Score(j)
        /\ \A alt \in VaryColumns({0, 1}) : Rerun(alt).result = result

----------------------------------------------------------------------------
(* C2 *)

\* C2: in binary mode (multi_label true, or exactly one label) a label's
\* score is the entailment share of the two-way softmax over its row's
\* {contradiction = column 0, entailment = column 2} logits: it is above 1/2
\* exactly when the row's column 2 logit exceeds its column 0 logit, is 1/2
\* when they are equal, and lies in [0, 1].
\* The code keeps the column 0 share (columns [2, 0], component 1).
C2_AboveHalfWhenColumnTwoExceeds ==
    BinaryMode =>
        \A i \in 1..N :
            /\ Score(i) > Half <=> logits[i][2] > logits[i][0]
            /\ logits[i][2] = logits[i][0] => Score(i) = Half
            /\ 0 <= Score(i) /\ Score(i) <= Unit

----------------------------------------------------------------------------
(* C3 *)

\* C3: for non-empty candidate_labels, labels and scores have the length of
\* candidate_labels, labels is candidate_labels rearranged by a permutation
\* of its positions, and scores[k] is the score computed for labels[k].
C3_ResultIsPermutation ==
    (Done /\ N >= 1) =>
        /\ Len(result.labels) = N
        /\ Len(result.scores) = N
        /\ Len(scores) = N
        /\ reversed_index \in Perms(N)
        /\ \A k \in 1..N :
              /\ result.labels[k] = CandidateLabels[reversed_index[k]]
              /\ result.scores[k] = scores[reversed_index[k]]

\* two distinct labels returned in the opposite of their input order
C3_Witness ==
    /\ Done
    /\ N = 2
    /\ CandidateLabels[1] # CandidateLabels[2]
    /\ reversed_index = <<2, 1>>
    /\ result.labels = <<CandidateLabels[2], CandidateLabels[1]>>
    /\ result.scores[1] > result.scores[2]

----------------------------------------------------------------------------
(* C4 *)

\* C4: the returned scores are in non-increasing order, in both modes.
C4_ScoresNonIncreasing ==
    Done =>
        \A k \in 1..(Len(result.scores) - 1) :
            result.scores[k] >= result.scores[k + 1]

\* the sort moved a later candidate with a greater score to the front
C4_Witness ==
    /\ Done
    /\ N >= 2
    /\ scores[1] < scores[2]
    /\ result.scores[1] > result.scores[2]

----------------------------------------------------------------------------
(* C5 *)

\* C5: a call without candidate_labels raises the value error and completes
\* no step; a call that ran forward was sanitized successfully first.
C5_MissingLabelsRaisesBeforeAnyStep ==
    /\ "candidate_labels" \notin DOMAIN kwargs =>
          /\ pc \in {"call", "raised"}
          /\ stages = <<>>
          /\ pc = "raised" => error = NoLabelError
    /\ "forward" \in Range(stages) =>
          /\ stages[1] = "sanitize"
          /\ "candidate_labels" \in DOMAIN kwargs
          /\ "candidate_labels" \in DOMAIN preprocess_params

\* a call without candidate_labels (other keywords given) has raised
C5_Witness ==
    /\ pc = "raised"
    /\ "candidate_labels" \notin DOMAIN kwargs
    /\ "multi_label" \in DOMAIN kwargs
    /\ error = NoLabelError
    /\ stages = <<>>

----------------------------------------------------------------------------
(* C6 *)

\* C6 as stated: an empty candidate_labels is rejected at sanitization, so
\* every call that reaches preprocess, forward or postprocess has a label.
C6_EmptyLabelsRejected ==
    /\ ("candidate_labels" \in DOMAIN kwargs /\ pc # "call") =>
          (Len(kwargs["candidate_labels"]) = 0 =>
              pc = "raised" /\ error = NoLabelError /\ stages = <<>>)
    /\ pc \in {"sanitized", "preprocessed", "forwarded", "done"} =>
          Len(preprocess_params["candidate_labels"]) >= 1

----------------------------------------------------------------------------
(* C7 *)

\* C7: in multi-label mode with more than one label, the score of label i is
\* the same for any logits that agree on row i (the score returned for label
\* i being the one postprocess computed at position i of `scores`).
C7_ScoreDependsOnOwnRowOnly ==
    (Done /\ MultiLabel /\ N > 1) =>
        \A i \in 1..N :
            /\ Score(i) = scores[i]
            /\ \A alt \in VaryRows((1..N) \ {i}) :
                  Scores(alt, CandidateLabels, MultiLabel)[i] = scores[i]

\* other rows change the ranking and another label's score, not label i's
C7_Witness ==
    /\ Done /\ MultiLabel /\ N > 1
    /\ \E i \in 1..N :
          \E alt \in VaryRows((1..N) \ {i}) :
              LET out == Rerun(alt)
              IN  /\ out.reversed_index # reversed_index
                  /\ out.scores # scores
                  /\ ScoreReported(out.result, out.reversed_index, i) = Score(i)

----------------------------------------------------------------------------
(* C8 *)

\* C8: with candidate_labels given, the preprocess parameters are exactly
\* {candidate_labels, hypothesis_template (default '{}')}, the forward
\* parameters are empty, and the postprocess parameters are exactly
\* {candidate_labels, multi_label (default false)}.
C8_ParameterRouting ==
    ("candidate_labels" \in DOMAIN kwargs /\ pc # "call") =>
        /\ preprocess_params =
              [candidate_labels |-> kwargs["candidate_labels"],
               hypothesis_template |->
                  IF "hypothesis_template" \in DOMAIN kwargs
                  THEN kwargs["hypothesis_template"] ELSE "{}"]
        /\ DOMAIN forward_params = {}
        /\ postprocess_params =
              [candidate_labels |-> kwargs["candidate_labels"],
               multi_label |->
                  IF "multi_label" \in DOMAIN kwargs
                  THEN kwargs["multi_label"] ELSE FALSE]
        /\ "multi_label" \notin DOMAIN preprocess_params
        /\ "hypothesis_template" \notin DOMAIN postprocess_params

\* only candidate_labels and an unrelated keyword given: both defaults apply
C8_Witness ==
    /\ pc = "sanitized"
    /\ DOMAIN kwargs = {"candidate_labels", "device"}
    /\ preprocess_params["hypothesis_template"] = "{}"
    /\ postprocess_params["multi_label"] = FALSE
    /\ DOMAIN forward_params = {}
    /\ preprocess_params["candidate_labels"] = postprocess_params["candidate_labels"]

----------------------------------------------------------------------------
(* C9 *)

\* C9: logits that differ only in column 1 give the same labels and scores,
\* in both modes.
C9_NeutralColumnUnused ==
    Done => \A alt \in VaryColumns({1}) : Rerun(alt).result = result

\* a ranked result of two labels whose rows differ in column 1
C9_Witness ==
    /\ Done
    /\ N > 1
    /\ \E i, j \in 1..N : logits[i][1] # logits[j][1]
    /\ result.scores[1] > result.scores[2]
    /\ \E alt \in VaryColumns({1}) : alt # logits /\ Rerun(alt).result = result

----------------------------------------------------------------------------
(* C10 *)

\* C10: two labels at input positions i < j with equal scores, which the
\* ascending argsort kept in index order, are returned with j before i.
C10_TiesInReverseCandidateOrder ==
    Done =>
        \A i, j \in 1..N :
            (i < j /\ scores[i] = scores[j] /\ tie[i] < tie[j]) =>
                Place(j) < Place(i)

\* a tie kept in index order by the argsort and returned in reverse order
C10_Witness ==
    /\ Done
    /\ N = 2
    /\ scores[1] = scores[2]
    /\ tie = <<1, 2>>
    /\ reversed_index = <<2, 1>>
    /\ result.labels = <<CandidateLabels[2], CandidateLabels[1]>>

====
